---- MODULE Spec2Model ----
(***************************************************************************)
(* A model of sensespace-did-ts: the SS58 address codec, the time-claim    *)
(* validator, token issuance (generateToken) and the verification          *)
(* pipeline (verifyToken, SenseSpaceTokenVerifier).                        *)
(*                                                                         *)
(* Bytes are integers 0..255, buffers are sequences of bytes.  A base-58   *)
(* string is the sequence of its characters, a character being its index   *)
(* in the alphabet "123456789ABC...xyz" (so '1' is 0 and '5' is 4); an     *)
(* index of 58 or more stands for a character outside the alphabet.        *)
(***************************************************************************)
EXTENDS Integers, Sequences, FiniteSets, TLC

VARIABLES
    clock,      \* Math.floor(Date.now() / 1000), the environment's clock
    options,    \* SenseSpaceTokenVerifier.options (this.options)
    pc,         \* where the verifyToken call in flight is suspended
    call,       \* the call in flight: its token and its destructured options
    steps,      \* the pipeline steps the call has executed, in order
    result,     \* what the call returned (or the fault that left it)
    issued,     \* what the last generateToken call returned or threw
    codec,      \* the address codec's last encode / decode
    tv          \* validateTokenTimes' last input and outcome

vars == <<clock, options, pc, call, steps, result, issued, codec, tv>>

----------------------------------------------------------------------------
(* Bounds of the model and constants of the program.                       *)

MaxSeed == 3          \* keys are generated from the seeds 0..MaxSeed
MaxClock == 3         \* the clock values are 0..MaxClock
KeyLen == 32          \* the 32 of 1 + 32 + 2
ChecksumLen == 2      \* the 2 of 1 + 32 + 2
HashLen == 64         \* blake2b(64)
DefaultPrefix == 42   \* prefix: number = 42
Base58 == 58          \* bs58's alphabet size
Char5 == 4            \* the character '5' of the base-58 alphabet

----------------------------------------------------------------------------
(* What a function returns or throws.                                      *)

Ok(v) == [ok |-> TRUE, val |-> v]
Throw(m) == [ok |-> FALSE, err |-> m]

----------------------------------------------------------------------------
(* bs58: base-x conversion between byte buffers and base-58 strings.  The  *)
(* leading zero bytes map to as many leading '1' characters, the rest is   *)
(* the big-endian number rewritten in the other base.                      *)

RECURSIVE LeadingZeros(_)
LeadingZeros(s) ==
    IF s = <<>> \/ Head(s) # 0 THEN 0 ELSE 1 + LeadingZeros(Tail(s))

Drop(s, n) == SubSeq(s, n + 1, Len(s))

\* Long division of the big-endian number s (digits in base from) by to:
\* <<quotient digits, remainder>>.
RECURSIVE DivMod(_, _, _, _, _)
DivMod(s, from, to, q, r) ==
    IF s = <<>> THEN <<q, r>>
    ELSE LET acc == r * from + Head(s)
         IN  DivMod(Tail(s), from, to, Append(q, acc \div to), acc % to)

RECURSIVE Convert(_, _, _)
Convert(s, from, to) ==
    LET t == Drop(s, LeadingZeros(s))
    IN  IF t = <<>> THEN <<>>
        ELSE LET qr == DivMod(t, from, to, <<>>, 0)
             IN  Append(Convert(qr[1], from, to), qr[2])

Zeros(n) == [i \in 1..n |-> 0]

bs58encode(bytes) ==
    Zeros(LeadingZeros(bytes)) \o Convert(bytes, 256, Base58)

bs58decode(str) ==
    IF \E i \in 1..Len(str) : str[i] >= Base58
    THEN Throw("Non-base58 character")
    ELSE Ok(Zeros(LeadingZeros(str)) \o Convert(str, Base58, 256))

----------------------------------------------------------------------------
(* blake2b(64): the library's hash, stood in for by a position-weighted    *)
(* sum; every output byte depends on every input byte and its position.    *)

RECURSIVE WeightedSum(_, _, _)
WeightedSum(s, i, j) ==
    IF i > Len(s) THEN 0
    ELSE ((i + j) * s[i] + WeightedSum(s, i + 1, j)) % 256

blake2b(input) == [j \in 1..HashLen |-> (WeightedSum(input, 1, j) + 17 * j) % 256]

----------------------------------------------------------------------------
(* utils: generateSS58Address and ss58DecodePublicKey.                     *)

\* Buffer.slice(a, b) with 0-based a, b: the bytes at positions [a, b).
Slice(buf, a, b) ==
    LET lo == IF a > Len(buf) THEN Len(buf) ELSE a
        hi == IF b > Len(buf) THEN Len(buf) ELSE b
    IN  IF hi <= lo THEN <<>> ELSE SubSeq(buf, lo + 1, hi)

\* Buffer.from([prefix]) keeps the low 8 bits of the number.
PrefixByte(prefix) == prefix % 256

generateSS58Address(publicKey, prefix) ==
    LET checksumInput == <<PrefixByte(prefix)>> \o publicKey
        fullHash == blake2b(checksumInput)
        checksum == Slice(fullHash, 0, ChecksumLen)
        addressBytes == <<PrefixByte(prefix)>> \o publicKey \o checksum
    IN  bs58encode(addressBytes)

prefixLenOfMutAlways1(raw) == 1
prefixLenOf(raw) ==
    IF Len(raw) = 1 + KeyLen + ChecksumLen THEN 1
    ELSE IF Len(raw) = 2 + KeyLen + ChecksumLen THEN 2
    ELSE Len(raw) - KeyLen - ChecksumLen

ss58DecodePublicKeyMutPrefix2(ss58Addr) ==
    LET dec == bs58decode(ss58Addr)
    IN  IF ~dec.ok THEN dec
        ELSE IF Len(dec.val) < 1 + KeyLen + ChecksumLen THEN Throw("SS58 raw too short")
        ELSE LET pubkey == Slice(dec.val, 2, 2 + KeyLen)
             IN  IF Len(pubkey) # KeyLen
                 THEN Throw("Decoded public key is not 32 bytes")
                 ELSE Ok(pubkey)
ss58DecodePublicKey(ss58Addr) ==
    LET dec == bs58decode(ss58Addr)
    IN  IF ~dec.ok THEN dec
        ELSE LET raw == dec.val
             IN  IF Len(raw) < 1 + KeyLen + ChecksumLen
                 THEN Throw("SS58 raw too short")
                 ELSE LET prefixLen == prefixLenOf(raw)
                          pubkey == Slice(raw, prefixLen, prefixLen + KeyLen)
                      IN  IF Len(pubkey) # KeyLen
                          THEN Throw("Decoded public key is not 32 bytes")
                          ELSE Ok(pubkey)

\* The check the decode path leaves out: the trailing two bytes of raw against
\* the hash of what precedes them.
ChecksumMatches(raw) ==
    /\ Len(raw) >= 1 + KeyLen + ChecksumLen
    /\ Slice(raw, Len(raw) - ChecksumLen, Len(raw))
         = Slice(blake2b(Slice(raw, 0, Len(raw) - ChecksumLen)), 0, ChecksumLen)

----------------------------------------------------------------------------
(* Inputs of the codec.                                                    *)

KeyOfSeed(s) == [i \in 1..KeyLen |-> IF s = 0 THEN 0 ELSE (s * i + 251 * (s - 1)) % 256]
Keys == {KeyOfSeed(s) : s \in 0..MaxSeed}
Prefixes == {0, 1, DefaultPrefix, 63, 64, 255}

\* Raw buffers no encode produced: every length around 1 + 32 + 2.
ForeignRaws == {[i \in 1..n |-> (i * 3) % 256] : n \in (KeyLen - 1)..(KeyLen + 6)}
\* A string with a character outside the base-58 alphabet.
NonBase58Addr == <<Char5, Base58, 7>>

\* The raw positions an address is altered at: the prefix, the key's ends, and
\* the two checksum bytes.
AlterPositions == {1, 2, 1 + KeyLen, 2 + KeyLen, 3 + KeyLen}
AlterDeltas == {1, 128}

CodecIdle == [op |-> "idle", key |-> <<>>, prefix |-> 0, addr |-> <<>>,
              altered |-> FALSE, out |-> Throw("")]

\* generateSS58Address(key, prefix); a behaviour draws one input and follows it
Encode(key, prefix) ==
    /\ codec.op = "idle"
    /\ codec' = [op |-> "encode", key |-> key, prefix |-> prefix,
                 addr |-> generateSS58Address(key, prefix),
                 altered |-> FALSE, out |-> Throw("")]
    /\ UNCHANGED <<clock, options, pc, call, steps, result, issued, tv>>

\* The environment alters one raw byte of the encoded address (a transcription
\* error, or a forged address) and hands the result on as a base-58 string.
Alter(i, d) ==
    /\ codec.op = "encode"
    /\ LET raw == bs58decode(codec.addr).val
       IN  codec' = [codec EXCEPT
                        !.op = "alter",
                        !.addr = bs58encode([raw EXCEPT ![i] = (raw[i] + d) % 256]),
                        !.altered = TRUE]
    /\ UNCHANGED <<clock, options, pc, call, steps, result, issued, tv>>

\* ss58DecodePublicKey of the address at hand
Decode ==
    /\ codec.op \in {"encode", "alter"}
    /\ codec' = [codec EXCEPT !.op = "decode",
                              !.out = ss58DecodePublicKey(codec.addr)]
    /\ UNCHANGED <<clock, options, pc, call, steps, result, issued, tv>>

\* ss58DecodePublicKey of a string that is no encode's output
DecodeForeign(addr) ==
    /\ codec.op = "idle"
    /\ codec' = [op |-> "foreign", key |-> <<>>, prefix |-> 0, addr |-> addr,
                 altered |-> FALSE, out |-> ss58DecodePublicKey(addr)]
    /\ UNCHANGED <<clock, options, pc, call, steps, result, issued, tv>>

----------------------------------------------------------------------------
(* JavaScript values as the claims of a token carry them.                  *)

Undefined == [t |-> "undefined"]
Null == [t |-> "null"]
Num(n) == [t |-> "number", n |-> n]
Txt(s) == [t |-> "string", txt |-> s]        \* a text string
Chars(c) == [t |-> "string", chars |-> c]    \* a string of base-58 characters

\* ToBoolean
Truthy(v) ==
    CASE v.t = "number" -> v.n # 0
      [] v.t = "string" -> IF "txt" \in DOMAIN v THEN v.txt # "" ELSE v.chars # <<>>
      [] OTHER -> FALSE

IsNumber(v) == v.t = "number"
IsString(v) == v.t = "string"

----------------------------------------------------------------------------
(* utils: validateTokenTimes, with the clock value it reads.               *)

validateTokenTimes(payload, maxAge, now) ==
    IF Truthy(payload.exp) /\ IsNumber(payload.exp) /\ now >= payload.exp.n
    THEN Throw("Token expired")
    ELSE IF Truthy(payload.nbf) /\ IsNumber(payload.nbf) /\ now < payload.nbf.n
    THEN Throw("Token not yet valid")
    ELSE IF Truthy(maxAge) /\ Truthy(payload.iat) /\ IsNumber(payload.iat)
            /\ now > payload.iat.n + maxAge.n
    THEN Throw("Token too old")
    ELSE Ok(TRUE)

ExpValues == {Undefined, Txt("1")} \cup {Num(n) : n \in -1..(MaxClock + 1)}
NbfValues == {Undefined, Num(0), Num(2)}
IatValues == {Undefined, Num(-1), Num(0), Num(1)}
MaxAgeValues == {Undefined, Num(0), Num(1), Num(2)}

TvIdle == [op |-> "idle", payload |-> [exp |-> Undefined, nbf |-> Undefined, iat |-> Undefined],
           maxAge |-> Undefined, now |-> 0, out |-> Ok(TRUE)]

\* the clock advances
Tick ==
    /\ clock < MaxClock
    /\ clock' = clock + 1
    /\ UNCHANGED <<options, pc, call, steps, result, issued, codec, tv>>

\* validateTokenTimes(payload, maxAge), once, at any clock value
ValidateTimes(payload, maxAge) ==
    /\ tv.op = "idle"
    /\ tv' = [op |-> "validated", payload |-> payload, maxAge |-> maxAge,
              now |-> clock, out |-> validateTokenTimes(payload, maxAge, clock)]
    /\ UNCHANGED <<clock, options, pc, call, steps, result, issued, codec>>

----------------------------------------------------------------------------
(* Buffer encodings.  A string of text is the sequence of its character    *)
(* codes; a buffer is the sequence of its bytes.                           *)

Str(codes) == [t |-> "string", codes |-> codes]
Uint8Array(bytes) == [t |-> "bytes", bytes |-> bytes]

\* The value of a hex digit, -1 for any other character.
HexValue(c) ==
    IF c >= 48 /\ c <= 57 THEN c - 48            \* 0-9
    ELSE IF c >= 97 /\ c <= 102 THEN c - 87      \* a-f
    ELSE IF c >= 65 /\ c <= 70 THEN c - 55       \* A-F
    ELSE -1

RECURSIVE HexPairs(_, _)
HexPairs(str, i) ==
    IF 2 * i > Len(str) THEN <<>>
    ELSE LET hi == HexValue(str[2 * i - 1])
             lo == HexValue(str[2 * i])
         IN  IF hi < 0 \/ lo < 0 THEN <<>>
             ELSE <<16 * hi + lo>> \o HexPairs(str, i + 1)

\* Buffer.from(str, 'hex'): the bytes of the leading pairs of hex digits; it
\* stops at the first pair that is none, drops an odd last character, and
\* throws for no string.
BufferFromHex(str) == Ok(HexPairs(str, 1))

\* buf.toString('hex')
RECURSIVE ToHex(_)
ToHex(bytes) ==
    IF bytes = <<>> THEN <<>>
    ELSE LET HexChar(v) == IF v < 10 THEN 48 + v ELSE 87 + v
         IN  <<HexChar(bytes[1] \div 16), HexChar(bytes[1] % 16)>> \o ToHex(Tail(bytes))

\* The value of a base-64 character, in either alphabet; -1 for any other.
Base64Value(c) ==
    IF c >= 65 /\ c <= 90 THEN c - 65            \* A-Z
    ELSE IF c >= 97 /\ c <= 122 THEN c - 71      \* a-z
    ELSE IF c >= 48 /\ c <= 57 THEN c + 4        \* 0-9
    ELSE IF c = 43 \/ c = 45 THEN 62             \* + -
    ELSE IF c = 47 \/ c = 95 THEN 63             \* / _
    ELSE -1

\* The decoder skips a character outside the alphabet and stops at '='.
Base64Values(str) ==
    LET pads == {i \in 1..Len(str) : str[i] = 61}
        end == IF pads = {} THEN Len(str)
               ELSE (CHOOSE i \in pads : \A j \in pads : i <= j) - 1
        legal == SelectSeq(SubSeq(str, 1, end), LAMBDA c : Base64Value(c) >= 0)
    IN  [i \in 1..Len(legal) |-> Base64Value(legal[i])]

\* Four 6-bit values give three bytes; a last group of three gives two, of two
\* gives one, and the bits left over are dropped.
Base64Groups(v) ==
    [j \in 1..((Len(v) * 6) \div 8) |->
        LET g == 4 * ((j - 1) \div 3)
            r == (j - 1) % 3
        IN  IF r = 0 THEN v[g + 1] * 4 + v[g + 2] \div 16
            ELSE IF r = 1 THEN (v[g + 2] % 16) * 16 + v[g + 3] \div 4
            ELSE (v[g + 3] % 4) * 64 + v[g + 4]]

\* Buffer.from(str, 'base64') and Buffer.from(str, 'base64url'): one decoder,
\* which throws for no string.
BufferFromBase64(str) == Ok(Base64Groups(Base64Values(str)))

\* buf.toString('base64') (url = FALSE, padded) and buf.toString('base64url')
ToBase64(bytes, url) ==
    LET n == Len(bytes)
        At(i) == IF i <= n THEN bytes[i] ELSE 0
        Char(v) == IF v < 26 THEN 65 + v
                   ELSE IF v < 52 THEN 71 + v
                   ELSE IF v < 62 THEN v - 4
                   ELSE IF v = 62 THEN (IF url THEN 45 ELSE 43)
                   ELSE (IF url THEN 95 ELSE 47)
        digits == (8 * n + 5) \div 6
        length == IF url THEN digits ELSE 4 * ((n + 2) \div 3)
    IN  [k \in 1..length |->
            LET g == 3 * ((k - 1) \div 4)
                r == (k - 1) % 4
            IN  IF k > digits THEN 61
                ELSE IF r = 0 THEN Char(At(g + 1) \div 4)
                ELSE IF r = 1 THEN Char((At(g + 1) % 4) * 16 + At(g + 2) \div 16)
                ELSE IF r = 2 THEN Char((At(g + 2) % 16) * 4 + At(g + 3) \div 64)
                ELSE Char(At(g + 3) % 64)]

----------------------------------------------------------------------------
(* Tokens.  A token is the sequence of its dot-separated segments.  A      *)
(* segment is the base64url text of a JSON value ("json"), of raw bytes    *)
(* ("bytes") or of neither ("junk"); a signature segment is also given as  *)
(* the characters of its text ("text").                                    *)

JsonSeg(v) == [kind |-> "json", v |-> v]
BytesSeg(b) == [kind |-> "bytes", v |-> b]
JunkSeg == [kind |-> "junk", v |-> Null]

\* b64urlEncode(Buffer.from(JSON.stringify(v)))
b64urlEncodeJson(v) == JsonSeg(v)

\* JSON.parse(b64urlDecode(seg).toString()): only the text of a JSON value parses.
JsonParseSeg(seg) ==
    IF seg.kind = "json" THEN Ok(seg.v) ELSE Throw("Unexpected token in JSON")

SigLen == 64          \* an Ed25519 signature is 64 bytes

\* @noble/ed25519, stood in for by what it guarantees: the public key is an
\* injective function of the private key, and a signature verifies exactly under
\* the signer's public key, over the message signed, unaltered.
MalformedSig == [len |-> 3, signer |-> <<>>, msg |-> <<>>, noise |-> 0]
ed25519getPublicKey(priv) == [i \in 1..KeyLen |-> (5 * priv[i] + i) % 256]
ed25519sign(msg, priv) ==
    [len |-> SigLen, signer |-> ed25519getPublicKey(priv), msg |-> msg, noise |-> 0]
ed25519verify(sig, msg, pub) ==
    IF sig.len # SigLen THEN Throw("signature of wrong length")
    ELSE Ok(sig.signer = pub /\ sig.msg = msg /\ sig.noise = 0)

\* The 64 bytes of a signature: stand-in bytes, a function of the signer's key.
SigBytes(sig) ==
    sig.signer \o [i \in 1..(SigLen - KeyLen) |-> (7 * sig.signer[i] + 13 * i) % 256]

\* A segment given as its text: the characters, and the signature whose bytes
\* the text was first written from.
TextSeg(chars, sig) == [kind |-> "text", v |-> sig, chars |-> chars]

\* utils: b64urlEncode of a signature
b64urlEncode(sig) == TextSeg(ToBase64(SigBytes(sig), TRUE), sig)

\* utils: b64urlDecode
b64urlDecode(data) ==
    LET pad == 4 - (Len(data) % 4)
        padded == IF pad = 4 THEN data ELSE data \o [i \in 1..pad |-> 61]
    IN  BufferFromBase64(padded).val

\* b64urlDecode(s) of the third segment: whatever bytes the text decodes to.  A
\* text that decodes to the bytes of the signature it was written from is that
\* signature; any other bytes are a signature altered, of the length decoded.
SignatureBytesOf(seg) ==
    IF seg.kind = "bytes" THEN seg.v
    ELSE IF seg.kind = "text"
    THEN LET bytes == b64urlDecode(seg.chars)
         IN  IF bytes = SigBytes(seg.v) THEN seg.v
             ELSE [seg.v EXCEPT !.len = Len(bytes), !.noise = 1]
    ELSE MalformedSig

\* str.split('.') of one segment's text: the pieces between its dots.
SplitText(chars, sig) ==
    LET dots == SelectSeq([i \in 1..Len(chars) |-> i], LAMBDA i : chars[i] = 46)
        cuts == <<0>> \o dots \o <<Len(chars) + 1>>
    IN  [k \in 1..(Len(dots) + 1) |->
            TextSeg(SubSeq(chars, cuts[k] + 1, cuts[k + 1] - 1), sig)]

\* token.split('.')
RECURSIVE Split(_)
Split(token) ==
    IF token = <<>> THEN <<>>
    ELSE (IF token[1].kind = "text" THEN SplitText(token[1].chars, token[1].v)
          ELSE <<token[1]>>) \o Split(Tail(token))

\* utils: splitJWT
splitJWT(token) ==
    LET parts == Split(token)
    IN  IF Len(parts) # 3 THEN Throw("Invalid JWT format")
        ELSE LET header == JsonParseSeg(parts[1])
                 payload == JsonParseSeg(parts[2])
             IN  IF ~header.ok THEN header
                 ELSE IF ~payload.ok THEN payload
                 ELSE Ok([header |-> header.val, payload |-> payload.val,
                          signature |-> SignatureBytesOf(parts[3])])

----------------------------------------------------------------------------
(* Option objects.  A key an object does not have holds NotGiven; a key it *)
(* has may still hold undefined.                                           *)

NotGiven == [t |-> "notgiven"]
Arr(items) == [t |-> "array", items |-> items]
Get(v) == IF v = NotGiven THEN Undefined ELSE v

\* { ...a, ...b }
Spread(a, b) == [k \in DOMAIN a |-> IF b[k] = NotGiven THEN a[k] ELSE b[k]]

DefaultDidBaseUrl == Txt("https://api.sensespace.xyz/api/did/")
DefaultAllowedIssuers == Arr(<<Txt("sensespace")>>)
NoOptions == [didBaseUrl |-> NotGiven, allowedIssuers |-> NotGiven, maxTokenAge |-> NotGiven]

\* const { didBaseUrl = ..., allowedIssuers = ['sensespace'], maxTokenAge } = options
Destructure(opts) ==
    [didBaseUrl |-> IF Get(opts.didBaseUrl) = Undefined
                    THEN DefaultDidBaseUrl ELSE opts.didBaseUrl,
     allowedIssuers |-> IF Get(opts.allowedIssuers) = Undefined
                        THEN DefaultAllowedIssuers ELSE opts.allowedIssuers,
     maxTokenAge |-> Get(opts.maxTokenAge)]

\* SenseSpaceTokenVerifier's constructor
Construct(opts) ==
    Spread([didBaseUrl |-> DefaultDidBaseUrl, allowedIssuers |-> DefaultAllowedIssuers,
            maxTokenAge |-> NotGiven], opts)

\* allowedIssuers.includes(iss)
Includes(arr, v) == \E i \in 1..Len(arr.items) : arr.items[i] = v

----------------------------------------------------------------------------
(* core: verifyToken, up to its first await.                               *)

\* sub.startsWith('5')
StartsWith5(sub) == sub.chars # <<>> /\ sub.chars[1] = Char5

IssuerCheck(cfg, payload) ==
    /\ Len(cfg.allowedIssuers.items) > 0
    /\ Truthy(payload.iss)
    /\ ~Includes(cfg.allowedIssuers, payload.iss)

AlgorithmOkMutAny(header) == TRUE
AlgorithmOk(header) == header.alg = Txt("EdDSA")

\* The synchronous part of verifyToken: the steps executed, in order, and either
\* the error thrown or the value ed25519.verify returned.
verifySync(token, cfg, now) ==
    LET parsed == splitJWT(token)
        s1 == <<"Parse">>
        s2 == Append(s1, "ExtractSubject")
        s3 == Append(s2, "CheckAlgorithm")
        s4 == Append(s3, "CheckIssuer")
        s5 == Append(s4, "CheckTimes")
        s6 == Append(s5, "RecoverKey")
        s7 == Append(s6, "VerifySignature")
    IN  IF ~parsed.ok THEN [steps |-> s1, out |-> parsed]
        ELSE LET header == parsed.val.header
                 payload == parsed.val.payload
             IN
        IF payload = Null
        THEN [steps |-> s2, out |-> Throw("Cannot read properties of null")]
        ELSE IF ~Truthy(payload.sub) \/ ~IsString(payload.sub)
        THEN [steps |-> s2, out |-> Throw("JWT payload has no valid subject")]
        ELSE IF header = Null
        THEN [steps |-> s3, out |-> Throw("Cannot read properties of null")]
        ELSE IF ~AlgorithmOk(header)
        THEN [steps |-> s3, out |-> Throw("Unsupported algorithm")]
        ELSE IF IssuerCheck(cfg, payload)
        THEN [steps |-> s4, out |-> Throw("Invalid issuer")]
        ELSE LET times == validateTokenTimes(payload, cfg.maxTokenAge, now) IN
        IF ~times.ok THEN [steps |-> s5, out |-> times]
        ELSE LET publicKeyBytes == ss58DecodePublicKey(payload.sub.chars) IN
        IF ~publicKeyBytes.ok THEN [steps |-> s6, out |-> publicKeyBytes]
        ELSE [steps |-> s7,
              out |-> ed25519verify(parsed.val.signature, <<token[1], token[2]>>,
                                    publicKeyBytes.val)]

----------------------------------------------------------------------------
(* What verifyToken returns.                                               *)

Doc == [t |-> "object", id |-> "did:document"]

NoResult == [kind |-> "none", success |-> FALSE, error |-> "",
             claims |-> Undefined, didDocument |-> Undefined]
Success(payload, doc) == [kind |-> "returned", success |-> TRUE, error |-> "",
                          claims |-> payload, didDocument |-> doc]
Failure(msg) == [kind |-> "returned", success |-> FALSE, error |-> msg,
                 claims |-> Undefined, didDocument |-> Undefined]
Fault(msg) == [kind |-> "thrown", success |-> FALSE, error |-> msg,
               claims |-> Undefined, didDocument |-> Undefined]

\* catch (error) { return { success: false, error: ... } }
CatchBoundaryMutRethrow(msg) == Fault(msg)
CatchBoundary(msg) == Failure(msg)

\* catch (error) { console.warn(...) } around the fetch: didDocument stays undefined
EnrichmentCatchMutFail(payload) == CatchBoundary("Failed to fetch DID document")
EnrichmentCatch(payload) == Success(payload, Undefined)

\* A call in flight: its arguments, the constants its destructuring bound, the
\* clock value it read and what its awaits gave; updatedAt is the position the
\* call was at when updateOptions first ran during it.
NoCall == [token |-> <<>>, opts |-> NoOptions, cfg |-> Destructure(NoOptions), now |-> 0,
           isValid |-> FALSE, fetch |-> "none", body |-> "none", updatedAt |-> "never"]

PayloadOf(token) == token[2].v

----------------------------------------------------------------------------
(* core: verifyToken as the steps the event loop runs.  Everything up to   *)
(* the first await runs in one step; each await is a step of its own.      *)

\* verifyToken(token, opts), up to await ed25519.verify(...)
VerifyTokenStart(token, opts) ==
    /\ pc = "idle"
    /\ LET cfg == Destructure(opts)
           r == verifySync(token, cfg, clock)
       IN  /\ call' = [NoCall EXCEPT !.token = token, !.opts = opts, !.cfg = cfg,
                                     !.now = clock,
                                     !.isValid = IF r.out.ok THEN r.out.val ELSE FALSE]
           /\ steps' = r.steps
           /\ IF r.out.ok
              THEN pc' = "sigwait" /\ result' = NoResult
              ELSE pc' = "done" /\ result' = CatchBoundary(r.out.err)
    /\ UNCHANGED <<clock, options, issued, codec, tv>>

\* SenseSpaceTokenVerifier.verify(token)
Verify(token) == VerifyTokenStart(token, options)

\* The didBaseUrl step 8 tests and fetches from: the constant bound at the start
\* of the call, whatever the instance's options are by now.
didBaseUrlOfMutLive(c, live) == Destructure(live).didBaseUrl
didBaseUrlOf(c, live) == c.cfg.didBaseUrl

\* The await of ed25519.verify resumes: the isValid test, then step 8 up to
\* await fetch(...)
SigResume ==
    /\ pc = "sigwait"
    /\ IF ~call.isValid
       THEN /\ pc' = "done"
            /\ result' = CatchBoundary("Invalid JWT signature")
            /\ steps' = steps
       ELSE LET payload == PayloadOf(call.token)
            IN  IF Truthy(didBaseUrlOf(call, options)) /\ StartsWith5(payload.sub)
                THEN /\ pc' = "fetchwait"
                     /\ result' = NoResult
                     /\ steps' = steps \o <<"OptionalEnrichment", "Fetch">>
                ELSE /\ pc' = "done"
                     /\ result' = Success(payload, Undefined)
                     /\ steps' = Append(steps, "OptionalEnrichment")
    /\ UNCHANGED <<clock, options, call, issued, codec, tv>>

FetchOutcomes == {"rejected", "notOk", "ok"}
BodyOutcomes == {"invalid", "json"}

\* The fetch settles: a network error, a response that is not ok, or an ok
\* response whose body is then read (await response.json()).
FetchSettle(outcome) ==
    /\ pc = "fetchwait"
    /\ call' = [call EXCEPT !.fetch = outcome]
    /\ IF outcome = "ok"
       THEN pc' = "jsonwait" /\ result' = NoResult
       ELSE /\ pc' = "done"
            /\ result' = IF outcome = "rejected"
                         THEN EnrichmentCatch(PayloadOf(call.token))
                         ELSE Success(PayloadOf(call.token), Undefined)
    /\ UNCHANGED <<clock, options, steps, issued, codec, tv>>

\* response.json() settles: the parsed document, or a rejection on a body that
\* is no JSON.
JsonSettle(outcome) ==
    /\ pc = "jsonwait"
    /\ call' = [call EXCEPT !.body = outcome]
    /\ pc' = "done"
    /\ result' = IF outcome = "json"
                 THEN Success(PayloadOf(call.token), Doc)
                 ELSE EnrichmentCatch(PayloadOf(call.token))
    /\ UNCHANGED <<clock, options, steps, issued, codec, tv>>

\* The caller takes the result; the next call may start.
Return ==
    /\ pc = "done"
    /\ pc' = "idle"
    /\ call' = NoCall
    /\ steps' = <<>>
    /\ result' = NoResult
    /\ UNCHANGED <<clock, options, issued, codec, tv>>

\* new SenseSpaceTokenVerifier(opts)
NewVerifier(opts) ==
    /\ pc = "idle"
    /\ options' = Construct(opts)
    /\ UNCHANGED <<clock, pc, call, steps, result, issued, codec, tv>>

\* SenseSpaceTokenVerifier.updateOptions(newOptions): synchronous, so it runs
\* between two steps of a call in flight, or between calls.
UpdateOptions(newOptions) ==
    /\ options' = Spread(options, newOptions)
    /\ call' = IF pc # "idle" /\ call.updatedAt = "never"
               THEN [call EXCEPT !.updatedAt = pc] ELSE call
    /\ UNCHANGED <<clock, pc, steps, result, issued, codec, tv>>

----------------------------------------------------------------------------
(* core: generateToken.                                                    *)

\* The keys tokens are issued with, and their addresses.
PrivA == KeyOfSeed(1)
PrivB == KeyOfSeed(2)
PubA == ed25519getPublicKey(PrivA)
PubB == ed25519getPublicKey(PrivB)
AddrA == generateSS58Address(PubA, DefaultPrefix)
AddrB == generateSS58Address(PubB, DefaultPrefix)
AddrA0 == generateSS58Address(PubA, 0)
ShortAddr == bs58encode(<<DefaultPrefix>> \o PubA \o <<1>>)

\* generateSS58Address(publicKey): the addresses of the model's keys are
\* evaluated once and looked up.
DefaultAddresses == [k \in {PubA, PubB} |-> generateSS58Address(k, DefaultPrefix)]
DefaultAddressOf(publicKey) ==
    IF publicKey \in DOMAIN DefaultAddresses THEN DefaultAddresses[publicKey]
    ELSE generateSS58Address(publicKey, DefaultPrefix)

DefaultExpiresIn == 2592000      \* 30 * 24 * 60 * 60
DefaultIssuer == Txt("sensespace")

NoClaims == [sub |-> NotGiven, iss |-> NotGiven, exp |-> NotGiven, nbf |-> NotGiven,
             iat |-> NotGiven, role |-> NotGiven]

\* JSON.stringify leaves out the keys that hold undefined.
Stringified(obj) == [k \in DOMAIN obj |-> Get(obj[k])]

TokenHeader == [alg |-> Txt("EdDSA"), typ |-> Txt("JWT")]

\* `${encodedHeader}.${encodedPayload}`
SigningInputMutPayloadOnly(encodedHeader, encodedPayload) == <<encodedPayload>>
SigningInput(encodedHeader, encodedPayload) == <<encodedHeader, encodedPayload>>

\* The bytes of the private key given: a string is decoded as hex, and as
\* base64 when the hex decoding throws.
privateKeyBytesOf(privateKey) ==
    IF IsString(privateKey)
    THEN LET hex == BufferFromHex(privateKey.codes)
         IN  IF hex.ok THEN hex
             ELSE LET b64 == BufferFromBase64(privateKey.codes)
                  IN  IF b64.ok THEN b64
                      ELSE Throw("Private key string must be valid hex or base64")
    ELSE Ok(privateKey.bytes)

generateToken(o, now) ==
    LET decoded == privateKeyBytesOf(o.privateKey)
        privateKeyBytes == decoded.val
        issuer == IF Get(o.issuer) = Undefined THEN DefaultIssuer ELSE o.issuer
        expiresIn == IF Get(o.expiresIn) = Undefined THEN Num(DefaultExpiresIn)
                     ELSE o.expiresIn
        additionalClaims == IF Get(o.additionalClaims) = Undefined THEN NoClaims
                            ELSE o.additionalClaims
    IN  IF ~decoded.ok THEN decoded
        ELSE IF Len(privateKeyBytes) # KeyLen
        THEN Throw("Ed25519 private key must be 32 bytes")
        ELSE LET publicKey == ed25519getPublicKey(privateKeyBytes)
                 ss58Address == DefaultAddressOf(publicKey)
                 payload == Spread([iat |-> Num(now),
                                    exp |-> Num(now + expiresIn.n),
                                    nbf |-> Num(now),
                                    iss |-> issuer,
                                    sub |-> IF Truthy(Get(o.subject)) THEN o.subject
                                            ELSE Chars(ss58Address),
                                    role |-> NotGiven],
                                   additionalClaims)
                 encodedHeader == b64urlEncodeJson(TokenHeader)
                 encodedPayload == b64urlEncodeJson(Stringified(payload))
                 signingInput == SigningInput(encodedHeader, encodedPayload)
                 signature == ed25519sign(signingInput, privateKeyBytes)
             IN  Ok(<<encodedHeader, encodedPayload, b64urlEncode(signature)>>)

NoIssue == [op |-> "none", input |-> [privateKey |-> Uint8Array(<<>>), subject |-> NotGiven,
                                      issuer |-> NotGiven, expiresIn |-> NotGiven,
                                      additionalClaims |-> NotGiven],
            now |-> 0, token |-> <<>>, error |-> ""]

\* generateToken(input); a behaviour issues one token and verifies it at any
\* later time, any number of times
Issue(input) ==
    /\ issued.op = "none"
    /\ LET r == generateToken(input, clock)
       IN  issued' = [op |-> IF r.ok THEN "issued" ELSE "threw",
                      input |-> input, now |-> clock,
                      token |-> IF r.ok THEN r.val ELSE <<>>,
                      error |-> IF r.ok THEN "" ELSE r.err]
    /\ UNCHANGED <<clock, options, pc, call, steps, result, codec, tv>>

\* verifyToken(token) of the token issued last, with no options given
VerifyIssued ==
    /\ issued.op \in {"issued", "tampered"}
    /\ VerifyTokenStart(issued.token, NoOptions)

\* A character code with bit b flipped.
FlipBit(c, b) == IF (c \div (2 ^ b)) % 2 = 1 THEN c - 2 ^ b ELSE c + 2 ^ b

\* The token issued reaches the verifier with one bit of one character of its
\* signature segment flipped.
Tamper(i, b) ==
    /\ issued.op = "issued" /\ pc = "idle"
    /\ i \in 1..Len(issued.token[3].chars)
    /\ issued' = [issued EXCEPT !.op = "tampered",
                                !.token[3].chars[i] = FlipBit(@, b)]
    /\ UNCHANGED <<clock, options, pc, call, steps, result, codec, tv>>

----------------------------------------------------------------------------
(* Inputs.                                                                 *)

MaxDeviations == 2    \* a token differs from the reference in at most so many fields

RefChoice == [shape |-> "jwt", alg |-> Txt("EdDSA"), sub |-> Chars(AddrA),
              iss |-> Txt("sensespace"), exp |-> Num(2), nbf |-> Num(1),
              iat |-> Num(1), sig |-> "A"]

Choices ==
    [shape : {"jwt", "twoParts", "fourParts", "headerJunk", "headerNull",
              "payloadJunk", "payloadNull"},
     alg : {Txt("EdDSA"), Txt("HS256"), Undefined},
     sub : {Chars(AddrA), Chars(AddrB), Chars(AddrA0), Undefined, Num(5),
            Chars(ShortAddr), Chars(NonBase58Addr)},
     iss : {Txt("sensespace"), Undefined, Txt(""), Txt("partner")},
     exp : {Num(2), Undefined, Num(0)},
     nbf : {Num(1), Undefined},
     iat : {Num(1), Undefined},
     sig : {"A", "B", "malformed"}]

Deviations(c) == Cardinality({f \in DOMAIN c : c[f] # RefChoice[f]})

TokenOfChoice(c) ==
    LET header == [alg |-> c.alg, typ |-> Txt("JWT")]
        payload == [sub |-> c.sub, iss |-> c.iss, exp |-> c.exp, nbf |-> c.nbf,
                    iat |-> c.iat, role |-> Undefined]
        h == CASE c.shape = "headerJunk" -> JunkSeg
               [] c.shape = "headerNull" -> JsonSeg(Null)
               [] OTHER -> JsonSeg(header)
        p == CASE c.shape = "payloadJunk" -> JunkSeg
               [] c.shape = "payloadNull" -> JsonSeg(Null)
               [] OTHER -> JsonSeg(payload)
        s == CASE c.sig = "A" -> BytesSeg(ed25519sign(<<h, p>>, PrivA))
               [] c.sig = "B" -> BytesSeg(ed25519sign(<<h, p>>, PrivB))
               [] OTHER -> BytesSeg(MalformedSig)
    IN  CASE c.shape = "twoParts" -> <<h, p>>
          [] c.shape = "fourParts" -> <<h, p, s, JunkSeg>>
          [] OTHER -> <<h, p, s>>

Tokens == {TokenOfChoice(c) : c \in {d \in Choices : Deviations(d) <= MaxDeviations}}

OptionsInputs ==
    [didBaseUrl : {NotGiven, Txt("")},
     allowedIssuers : {NotGiven, Arr(<<>>)},
     maxTokenAge : {NotGiven, Num(1)}]

GenerateInputs ==
    [privateKey : {Uint8Array(PrivA), Uint8Array(PrivB),
                   Uint8Array(SubSeq(PrivA, 1, KeyLen - 1))},
     subject : {NotGiven, Chars(AddrA0)},
     issuer : {NotGiven, Txt("partner"), Txt("")},
     expiresIn : {NotGiven, Num(0), Num(2)},
     additionalClaims : {NotGiven,
                         [NoClaims EXCEPT !.role = Txt("admin")],
                         [NoClaims EXCEPT !.exp = Num(0)]}]

\* Private keys as a caller holds them: the bytes, or a string written from the
\* bytes in hex or in base64, well-formed or not.
PrivateKeyStrings ==
    UNION {{ToHex(k),
            ToHex(SubSeq(k, 1, KeyLen - 1)),
            ToHex(k \o <<7>>),
            ToHex(k) \o <<122, 122>>,                       \* hex, then "zz"
            ToHex(k) \o <<48>>,                             \* hex, then "0"
            <<103>> \o Tail(ToHex(k)),                      \* "g" for the first digit
            ToBase64(k, FALSE),
            ToBase64(BufferFromHex(ToHex(k) \o SubSeq(ToHex(k), 1, KeyLen)).val, FALSE)}
           : k \in Keys} \cup {<<>>}

KeyInputs ==
    [privateKey : {Str(c) : c \in PrivateKeyStrings} \cup {Uint8Array(k) : k \in Keys},
     subject : {NotGiven}, issuer : {NotGiven}, expiresIn : {NotGiven},
     additionalClaims : {NotGiven}]

\* What updateOptions is called with, and the tokens verified meanwhile: the
\* reference token, a longer-lived one, one of another issuer, one whose subject
\* does not start with '5', one signed with another key.
UpdateInputs ==
    [didBaseUrl : {NotGiven, Txt(""), Txt("https://did.example/")},
     allowedIssuers : {NotGiven, Arr(<<Txt("partner")>>)},
     maxTokenAge : {NotGiven, Num(1)}]

VerifierTokens ==
    {TokenOfChoice(c) : c \in {RefChoice,
                               [RefChoice EXCEPT !.exp = Num(MaxClock + 2)],
                               [RefChoice EXCEPT !.iss = Txt("partner")],
                               [RefChoice EXCEPT !.sub = Chars(AddrA0)],
                               [RefChoice EXCEPT !.sig = "B"]}}

\* The tokens tampered with, and where: any character of the 86 of the
\* signature segment, any bit of its code.
TamperInputs ==
    [privateKey : {Uint8Array(PrivA), Uint8Array(PrivB)},
     subject : {NotGiven}, issuer : {NotGiven}, expiresIn : {NotGiven},
     additionalClaims : {NotGiven}]
TamperPositions == 1..((8 * SigLen + 5) \div 6)
TamperBits == 0..7

TimePayloads == [exp : ExpValues, nbf : NbfValues, iat : IatValues]

----------------------------------------------------------------------------
(* The specifications.                                                     *)

Init ==
    /\ clock = 0
    /\ options = Construct(NoOptions)
    /\ pc = "idle"
    /\ call = NoCall
    /\ steps = <<>>
    /\ result = NoResult
    /\ issued = NoIssue
    /\ codec = CodecIdle
    /\ tv = TvIdle

\* A verifier instance verifying tokens of any shape.
Next ==
    \/ Tick
    \/ \E opts \in OptionsInputs : NewVerifier(opts)
    \/ \E token \in Tokens : Verify(token)
    \/ SigResume
    \/ \E outcome \in FetchOutcomes : FetchSettle(outcome)
    \/ \E outcome \in BodyOutcomes : JsonSettle(outcome)
    \/ Return

Spec == Init /\ [][Next]_vars

\* Issuing tokens and verifying them with the default options.
NextIssue ==
    \/ Tick
    \/ \E input \in GenerateInputs : Issue(input)
    \/ VerifyIssued
    \/ SigResume
    \/ \E outcome \in FetchOutcomes : FetchSettle(outcome)
    \/ \E outcome \in BodyOutcomes : JsonSettle(outcome)
    \/ Return

SpecIssue == Init /\ [][NextIssue]_vars

\* Issuing with private keys of every form.
NextKey ==
    \/ Tick
    \/ \E input \in KeyInputs : Issue(input)
    \/ VerifyIssued
    \/ SigResume
    \/ \E outcome \in FetchOutcomes : FetchSettle(outcome)
    \/ \E outcome \in BodyOutcomes : JsonSettle(outcome)
    \/ Return

SpecKey == Init /\ [][NextKey]_vars

\* One verifier instance whose options are updated while it verifies.
NextVerifier ==
    \/ Tick
    \/ \E newOptions \in UpdateInputs : UpdateOptions(newOptions)
    \/ \E token \in VerifierTokens : Verify(token)
    \/ SigResume
    \/ \E outcome \in FetchOutcomes : FetchSettle(outcome)
    \/ \E outcome \in BodyOutcomes : JsonSettle(outcome)
    \/ Return

SpecVerifier == Init /\ [][NextVerifier]_vars

\* A token issued, altered in its signature segment and verified.
NextTamper ==
    \/ \E input \in TamperInputs : Issue(input)
    \/ \E i \in TamperPositions, b \in TamperBits : Tamper(i, b)
    \/ VerifyIssued
    \/ SigResume
    \/ \E outcome \in FetchOutcomes : FetchSettle(outcome)
    \/ \E outcome \in BodyOutcomes : JsonSettle(outcome)
    \/ Return

SpecTamper == Init /\ [][NextTamper]_vars

\* The address codec on its own.
NextCodec ==
    \/ \E key \in Keys, prefix \in Prefixes : Encode(key, prefix)
    \/ \E i \in AlterPositions, d \in AlterDeltas : Alter(i, d)
    \/ Decode
    \/ \E raw \in ForeignRaws : DecodeForeign(bs58encode(raw))
    \/ DecodeForeign(NonBase58Addr)

SpecCodec == Init /\ [][NextCodec]_vars

\* The time validator on its own.
NextTimes ==
    \/ Tick
    \/ \E payload \in TimePayloads, maxAge \in MaxAgeValues : ValidateTimes(payload, maxAge)

SpecTimes == Init /\ [][NextTimes]_vars

----------------------------------------------------------------------------
(* The checks of the pipeline as the specification words them: a claim is  *)
(* present when it is not undefined, numeric when it is a number.          *)

Range(seq) == {seq[i] : i \in 1..Len(seq)}

Present(v) == v # Undefined

StatedExpired(payload, now) == IsNumber(payload.exp) /\ now >= payload.exp.n
StatedNotYetValid(payload, now) == IsNumber(payload.nbf) /\ now < payload.nbf.n
StatedTooOld(payload, maxAge, now) ==
    IsNumber(maxAge) /\ IsNumber(payload.iat) /\ now > payload.iat.n + maxAge.n
StatedTimesValid(payload, maxAge, now) ==
    /\ ~StatedExpired(payload, now)
    /\ ~StatedNotYetValid(payload, now)
    /\ ~StatedTooOld(payload, maxAge, now)

StatedIssuerRule(cfg, payload) ==
    (Len(cfg.allowedIssuers.items) > 0 /\ Present(payload.iss))
        => Includes(cfg.allowedIssuers, payload.iss)

\* The token parsed into three segments with an object as header and as payload.
ParsedObjects(token) ==
    /\ Len(token) = 3
    /\ token[1].kind = "json" /\ token[1].v # Null
    /\ token[2].kind = "json" /\ token[2].v # Null

\* The header's alg, undefined when there is no header to read it from.
AlgOf(token) ==
    IF Len(token) >= 1 /\ token[1].kind = "json" /\ token[1].v # Null
    THEN token[1].v.alg ELSE Undefined

StatedAllChecksPass(c) ==
    /\ ParsedObjects(c.token)
    /\ LET payload == PayloadOf(c.token)
       IN  /\ IsString(payload.sub) /\ Truthy(payload.sub)
           /\ AlgOf(c.token) = Txt("EdDSA")
           /\ StatedIssuerRule(c.cfg, payload)
           /\ StatedTimesValid(payload, c.cfg.maxTokenAge, c.now)
           /\ LET key == ss58DecodePublicKey(payload.sub.chars)
              IN  /\ key.ok /\ Len(key.val) = KeyLen
                  /\ ed25519verify(SignatureBytesOf(c.token[3]),
                                   <<c.token[1], c.token[2]>>, key.val) = Ok(TRUE)

----------------------------------------------------------------------------
(* C1: verifyToken returns success only for a token that passed every      *)
(* check: three segments, a non-empty string subject, alg "EdDSA", the     *)
(* issuer rule, time claims valid at the clock value read, a subject that  *)
(* decodes to a 32-byte key, a signature that verifies under that key.     *)
C1_SuccessOnlyIfAllChecksPass ==
    (pc = "done" /\ result.success) => StatedAllChecksPass(call)

(* C2: every call ends with a returned result, success or a failure with a *)
(* message; no step's failure leaves verifyToken as a thrown fault, and a  *)
(* suspended call can always be resumed.                                   *)
C2_NeverThrows ==
    /\ result.kind # "thrown"
    /\ pc = "done" => /\ result.kind = "returned"
                      /\ result.success \/ result.error # ""
    /\ pc \in {"sigwait", "fetchwait", "jsonwait"} =>
          ENABLED (\/ SigResume
                   \/ \E outcome \in FetchOutcomes : FetchSettle(outcome)
                   \/ \E outcome \in BodyOutcomes : JsonSettle(outcome))

\* A call the signature primitive threw in, ended as a failure with its message.
C2_Witness ==
    /\ pc = "done"
    /\ steps # <<>> /\ steps[Len(steps)] = "VerifySignature"
    /\ result = Failure("signature of wrong length")

(* C8: a token whose header alg is not "EdDSA" (absent included) ends in   *)
(* failure, and neither the subject is decoded nor the signature           *)
(* primitive invoked for it.                                               *)
C8_AlgorithmGate ==
    (pc # "idle" /\ AlgOf(call.token) # Txt("EdDSA")) =>
        /\ pc = "done"
        /\ result.kind = "returned" /\ ~result.success
        /\ "RecoverKey" \notin Range(steps)
        /\ "VerifySignature" \notin Range(steps)

\* The reference token with only its alg changed, at a clock value at which
\* the reference token verifies: rejected at the algorithm step.
C8_Witness ==
    /\ pc = "done"
    /\ call.token = TokenOfChoice([RefChoice EXCEPT !.alg = Txt("HS256")])
    /\ call.now = 1
    /\ steps = <<"Parse", "ExtractSubject", "CheckAlgorithm">>
    /\ result = Failure("Unsupported algorithm")

(* C9: with a non-empty allow-list and claims.iss present (any value, the  *)
(* empty string included) verification fails unless iss is in the list;    *)
(* with an empty allow-list, or iss absent, there is no issuer failure.    *)
C9_IssuerCheck ==
    (pc # "idle" /\ ParsedObjects(call.token)) =>
        LET payload == PayloadOf(call.token)
            listed == Len(call.cfg.allowedIssuers.items) > 0
        IN  /\ (listed /\ Present(payload.iss)
                  /\ ~Includes(call.cfg.allowedIssuers, payload.iss))
                 => (pc = "done" /\ ~result.success)
            /\ (~listed \/ ~Present(payload.iss))
                 => result.error # "Invalid issuer"

(* C10: once the signature step has succeeded, the call ends in success    *)
(* with the token's claims whatever the document fetch does; the document  *)
(* is in the result exactly after an ok response with a JSON body.         *)
C10_EnrichmentNeverDowngrades ==
    (pc = "done" /\ "OptionalEnrichment" \in Range(steps)) =>
        result = Success(PayloadOf(call.token),
                         IF call.fetch = "ok" /\ call.body = "json"
                         THEN Doc ELSE Undefined)

\* A verified call whose fetch was rejected, and one whose body was no JSON.
C10_Witness ==
    /\ pc = "done"
    /\ "Fetch" \in Range(steps)
    /\ call.fetch = "rejected" \/ (call.fetch = "ok" /\ call.body = "invalid")
    /\ result.success /\ result.didDocument = Undefined

----------------------------------------------------------------------------
(* C3: verifying an issued token with the default options succeeds and     *)
(* returns the claims issued - as stated, for any subject, issuer,         *)
(* expiresIn and additional claims.                                        *)
C3_RoundTripAnyClaims ==
    (pc = "done" /\ issued.op = "issued" /\ call.token = issued.token
       /\ call.cfg = Destructure(NoOptions)) =>
        result = Success(PayloadOf(issued.token), result.didDocument)

\* What the round trip needs of the input of generateToken.
C3_Pre(input) ==
    /\ \/ ~Truthy(Get(input.subject))
       \/ ss58DecodePublicKey(input.subject.chars)
            = Ok(ed25519getPublicKey(privateKeyBytesOf(input.privateKey).val))
    /\ Get(input.issuer) = Undefined \/ Includes(DefaultAllowedIssuers, input.issuer)
    /\ Get(input.expiresIn) = Undefined \/ input.expiresIn.n > 0
    /\ \/ Get(input.additionalClaims) = Undefined
       \/ \A k \in {"sub", "iss", "exp", "nbf", "iat"} :
             input.additionalClaims[k] = NotGiven

(* C3, amended: when the subject is omitted or decodes to the key's public *)
(* key, the issuer is omitted or in the default allow-list, expiresIn is   *)
(* omitted or positive, the additional claims set none of sub, iss, exp,   *)
(* nbf, iat, and the verifier reads a clock value now with                 *)
(* iat <= now < exp, verifying the issued token with the default options   *)
(* succeeds and returns the claims issued.                                 *)
C3_RoundTrip ==
    (pc = "done" /\ issued.op = "issued" /\ call.token = issued.token
       /\ call.cfg = Destructure(NoOptions)
       /\ C3_Pre(issued.input)
       /\ PayloadOf(issued.token).iat.n <= call.now
       /\ call.now < PayloadOf(issued.token).exp.n) =>
        result = Success(PayloadOf(issued.token), result.didDocument)

\* An issued token with an explicit subject, an expiry two seconds on and an
\* additional claim, verified one second after it was issued.
C3_Witness ==
    /\ pc = "done" /\ issued.op = "issued" /\ call.token = issued.token
    /\ C3_Pre(issued.input)
    /\ issued.input.subject = Chars(AddrA0)
    /\ issued.input.expiresIn = Num(2)
    /\ call.now = issued.now + 1
    /\ result.success /\ result.claims.role = Txt("admin")

----------------------------------------------------------------------------
(* C4: decode(encode(key, prefix)) = key for every 32-byte key and every   *)
(* prefix byte.                                                            *)
C4_AddressRoundTrip ==
    (codec.op = "decode" /\ ~codec.altered) => codec.out = Ok(codec.key)

\* The all-zero key under prefix 0 (an address of leading '1's), decoded.
C4_Witness ==
    /\ codec.op = "decode" /\ ~codec.altered
    /\ codec.key = KeyOfSeed(0) /\ codec.prefix = 0
    /\ codec.out.ok

----------------------------------------------------------------------------
(* C6: whenever exp is a number (any) and now >= exp, time validation      *)
(* fails with "Token expired"; with exp = now + 1 and no other failing     *)
(* check it passes.                                                        *)
C6_ExpiryBoundary ==
    tv.op = "validated" =>
        /\ StatedExpired(tv.payload, tv.now) => tv.out = Throw("Token expired")
        /\ (/\ IsNumber(tv.payload.exp) /\ tv.payload.exp.n = tv.now + 1
            /\ ~StatedNotYetValid(tv.payload, tv.now)
            /\ ~StatedTooOld(tv.payload, tv.maxAge, tv.now)) => tv.out.ok

(* C7: whenever maxAge is a number (any), iat is a number (any), no        *)
(* earlier time check fails and now > iat + maxAge, time validation fails  *)
(* with "Token too old"; when now <= iat + maxAge it does not.             *)
C7_MaxAge ==
    (/\ tv.op = "validated"
     /\ IsNumber(tv.maxAge) /\ IsNumber(tv.payload.iat)
     /\ ~StatedExpired(tv.payload, tv.now)
     /\ ~StatedNotYetValid(tv.payload, tv.now)) =>
        IF tv.now > tv.payload.iat.n + tv.maxAge.n
        THEN tv.out = Throw("Token too old")
        ELSE tv.out # Throw("Token too old")

----------------------------------------------------------------------------
(* C14: with L the length of the base-58-decoded buffer, decoding fails    *)
(* with "SS58 raw too short" exactly when L < 35; for L >= 35 it returns   *)
(* the 32 bytes at positions [L - 34, L - 2) and never fails with "Decoded *)
(* public key is not 32 bytes".                                            *)
C14_DecodeLengthRule ==
    (codec.op \in {"decode", "foreign"} /\ bs58decode(codec.addr).ok) =>
        LET raw == bs58decode(codec.addr).val
            L == Len(raw)
        IN  /\ (codec.out = Throw("SS58 raw too short")) <=> (L < 35)
            /\ L >= 35 => /\ codec.out = Ok(SubSeq(raw, L - 34 + 1, L - 2))
                          /\ Len(codec.out.val) = 32
            /\ codec.out # Throw("Decoded public key is not 32 bytes")

\* A 37-byte buffer (a three-byte prefix) decoded to bytes 3..34 of it.
C14_Witness ==
    /\ codec.op = "foreign" /\ bs58decode(codec.addr).ok
    /\ Len(bs58decode(codec.addr).val) = 37
    /\ codec.out.ok /\ codec.out.val[1] = 12 /\ Len(codec.out.val) = 32

----------------------------------------------------------------------------
(* C11: a private key given as a string is decoded as hex, and as base64   *)
(* when it is no hex string; issuance succeeds exactly when the decoded    *)
(* key has 32 bytes and fails with the key-length error otherwise.  A      *)
(* string that is the base64 of 32 bytes and no valid hex is accepted.     *)
ValidHex(str) ==
    /\ Len(str) % 2 = 0
    /\ \A i \in 1..Len(str) : HexValue(str[i]) >= 0

StatedKeyBytes(str) ==
    IF ValidHex(str) THEN BufferFromHex(str).val ELSE BufferFromBase64(str).val

C11_KeyStringDecoding ==
    (issued.op # "none" /\ IsString(issued.input.privateKey)) =>
        LET str == issued.input.privateKey.codes
        IN  IF Len(StatedKeyBytes(str)) = KeyLen
            THEN issued.op = "issued"
            ELSE /\ issued.op = "threw"
                 /\ issued.error = "Ed25519 private key must be 32 bytes"

----------------------------------------------------------------------------
(* C15: a call of verify uses the options the instance held when the call  *)
(* started: the allow-list and the maximum age its checks applied and the  *)
(* document URL its enrichment tested are those of that moment, whenever   *)
(* updateOptions ran during the call; a call during which updateOptions    *)
(* has not run uses the instance's current options.                        *)
C15_ConfigurationSnapshot ==
    pc # "idle" =>
        LET atStart == Destructure(call.opts)
            payload == PayloadOf(call.token)
        IN  /\ call.cfg = atStart
            /\ call.updatedAt = "never" => call.opts = options
            /\ Len(steps) >= 4 =>
                 ((Len(steps) = 4) <=> IssuerCheck(atStart, payload))
            /\ Len(steps) >= 5 =>
                 ((Len(steps) = 5)
                    <=> ~validateTokenTimes(payload, atStart.maxTokenAge, call.now).ok)
            /\ (pc # "sigwait" /\ Len(steps) >= 7 /\ call.isValid) =>
                 (("Fetch" \in Range(steps))
                    <=> (Truthy(atStart.didBaseUrl) /\ StartsWith5(payload.sub)))

\* A call started with the default URL, allow-list and no maximum age; while it
\* awaited the signature check the options were updated to no URL, another
\* allow-list and a maximum age the token exceeds; the call still succeeded and
\* fetched the document.
C15_Witness ==
    /\ pc = "done" /\ call.updatedAt = "sigwait"
    /\ call.opts = Construct(NoOptions)
    /\ options = [didBaseUrl |-> Txt(""), allowedIssuers |-> Arr(<<Txt("partner")>>),
                  maxTokenAge |-> Num(1)]
    /\ call.now > PayloadOf(call.token).iat.n + 1
    /\ result = Success(PayloadOf(call.token), Doc)
    /\ "Fetch" \in Range(steps)

----------------------------------------------------------------------------
(* C13: the steps run in the order Parse, ExtractSubject, CheckAlgorithm,  *)
(* CheckIssuer, CheckTimes, RecoverKey, VerifySignature,                   *)
(* OptionalEnrichment; for a token that violates several checks the        *)
(* failure reported is that of the earliest violated step; after a failure *)
(* no later step runs, the document fetch included.                        *)
StepOrder == <<"Parse", "ExtractSubject", "CheckAlgorithm", "CheckIssuer", "CheckTimes",
               "RecoverKey", "VerifySignature", "OptionalEnrichment">>

\* The steps whose check, as the specification words it, the token of call c
\* violates; a check that has nothing to read (no payload, no subject to
\* decode) is not counted.
StatedViolated(c) ==
    LET token == c.token
        parsed == Len(token) = 3 /\ token[1].kind = "json" /\ token[2].kind = "json"
        payload == IF parsed THEN PayloadOf(token) ELSE Null
        subOk == payload # Null /\ IsString(payload.sub) /\ Truthy(payload.sub)
        key == IF subOk THEN ss58DecodePublicKey(payload.sub.chars) ELSE Throw("")
    IN  {st \in Range(StepOrder) :
           CASE st = "Parse" -> ~parsed
             [] st = "ExtractSubject" -> parsed /\ ~subOk
             [] st = "CheckAlgorithm" -> parsed /\ AlgOf(token) # Txt("EdDSA")
             [] st = "CheckIssuer" -> payload # Null /\ ~StatedIssuerRule(c.cfg, payload)
             [] st = "CheckTimes" ->
                  payload # Null /\ ~StatedTimesValid(payload, c.cfg.maxTokenAge, c.now)
             [] st = "RecoverKey" -> subOk /\ ~key.ok
             [] st = "VerifySignature" ->
                  key.ok /\ ed25519verify(SignatureBytesOf(token[3]),
                                          <<token[1], token[2]>>, key.val) # Ok(TRUE)
             [] OTHER -> FALSE}

StatedEarliestViolated(c) ==
    LET v == StatedViolated(c)
    IN  StepOrder[CHOOSE i \in 1..Len(StepOrder) :
                     StepOrder[i] \in v /\ \A j \in 1..(i - 1) : StepOrder[j] \notin v]

C13_StepOrder ==
    pc = "done" =>
        LET executed == SelectSeq(steps, LAMBDA st : st # "Fetch")
        IN  /\ executed = SubSeq(StepOrder, 1, Len(executed))
            /\ result.success => executed = StepOrder
            /\ ~result.success =>
                 /\ call.fetch = "none" /\ "Fetch" \notin Range(steps)
                 /\ "OptionalEnrichment" \notin Range(steps)
            /\ Cardinality(StatedViolated(call)) >= 2 =>
                 /\ ~result.success
                 /\ executed[Len(executed)] = StatedEarliestViolated(call)

----------------------------------------------------------------------------
(* C12: for a token that verifies, every token that differs from it in one *)
(* bit of the signature segment, and still has three segments with the     *)
(* first two unchanged, fails verification at the signature step; it is    *)
(* never reported as success.                                              *)
OriginalOf(token) == [token EXCEPT ![3] = b64urlEncode(token[3].v)]

C12_TamperDetection ==
    (/\ pc = "done" /\ issued.op = "tampered" /\ call.token = issued.token
     /\ Len(Split(call.token)) = 3
     /\ call.token # OriginalOf(call.token)
     /\ verifySync(OriginalOf(call.token), call.cfg, call.now).out = Ok(TRUE)) =>
        /\ ~result.success
        /\ steps[Len(steps)] = "VerifySignature"

====
